---- MODULE Spec2Model ----
(***************************************************************************)
(* The CleanFlux client of src/index.js: the constructor, the shared       *)
(* request routine _request, the five capability methods and ping, run     *)
(* against a transport (fetch) that answers each request with a failure,   *)
(* or with a status followed by a body text or a body-stream failure.      *)
(*                                                                         *)
(* A JavaScript string is the sequence of its pieces: every "/" is a piece *)
(* of its own, and the text between two slashes is cut into whole pieces   *)
(* (a literal of the source is one piece between its slashes).             *)
(* A primitive is the tuple of its type and the pieces of its text:        *)
(* <<"string", "hi">>, <<"number", "7">>, <<"null">>. A value is [p, m]:   *)
(* a primitive p, or <<"object">> with the members m, each the key         *)
(* followed by the primitive it holds, in the order of KeyOrder.           *)
(***************************************************************************)
EXTENDS Integers, Sequences, FiniteSets, TLC

\* Bounds of the model.
MaxCalls == 2      \* calls a caller fires on one client
MaxLen == 3        \* length of a baseUrl given to the constructor

Calls == 1..MaxCalls

(***************************************************************************)
(* JavaScript values                                                       *)
(***************************************************************************)
Digits == <<"0", "1", "2", "3", "4", "5", "6", "7", "8", "9">>
RECURSIVE NatPieces(_)
NatPieces(n) == IF n < 10 THEN <<Digits[n + 1]>>
                ELSE NatPieces(n \div 10) \o <<Digits[(n % 10) + 1]>>

Undefined == <<"undefined">>
Null == <<"null">>
Str(s) == <<"string">> \o s
Num(n) == <<"number">> \o NatPieces(n)
Bool(b) == <<"boolean", IF b THEN "true" ELSE "false">>

Keys == {"text", "cleaned", "error", "message"}
KeyOrder == <<"text", "cleaned", "error", "message">>
NoFields == [k \in Keys |-> Undefined]
Field(k, v) == [NoFields EXCEPT ![k] = v]

\* The members of an object whose fields are f: those that are defined.
RECURSIVE MembersOf(_, _)
MembersOf(f, ks) ==
    IF ks = <<>> THEN <<>>
    ELSE (IF f[Head(ks)] = Undefined THEN <<>> ELSE <<<<Head(ks)>> \o f[Head(ks)]>>)
         \o MembersOf(f, Tail(ks))

\* A primitive as a value, and the object with the fields f.
Val(p) == [p |-> p, m |-> <<>>]
Obj(f) == [p |-> <<"object">>, m |-> MembersOf(f, KeyOrder)]

TypeOf(v) == v.p[1]

\* !p is true of these primitives (an object is truthy).
Falsy(p) == p \in {Undefined, Null, Str(<<>>), Num(0), Bool(FALSE)}

\* a || b
Or(a, b) == IF Falsy(a) THEN b ELSE a

\* data?.k
Get(v, k) ==
    IF \E i \in 1..Len(v.m) : v.m[i][1] = k
    THEN Tail(v.m[CHOOSE i \in 1..Len(v.m) : v.m[i][1] = k])
    ELSE Undefined

\* `${p}` of a template literal.
ToStr(p) ==
    CASE p[1] \in {"string", "number", "boolean"} -> Tail(p)
      [] p[1] = "object" -> <<"[object Object]">>
      [] OTHER -> p

(***************************************************************************)
(* The constructor                                                         *)
(***************************************************************************)
MsgKeyRequired ==
    <<"CleanFlux: API key is required. Get yours at https:", "/", "/",
      "cleanflux.ai", "/", "dashboard">>
MsgKeyNotString == <<"CleanFlux: API key must be a string">>
DefaultBaseUrl == <<"https:", "/", "/", "api.cleanflux.ai">>

NoClient == [constructed |-> FALSE, apiKey |-> Val(Undefined), baseUrl |-> <<>>]

\* An error value: name and message, and for an error of _request the
\* attached status and response.
Err(name, message) ==
    [name |-> name, message |-> message, status |-> Undefined,
     response |-> Val(Undefined)]
NoError == Err("none", <<>>)

\* s.replace(/\/$/, '')
StripNothing(s) == s
StripTrailingSlash(s) ==
    IF Len(s) > 0 /\ s[Len(s)] = "/" THEN SubSeq(s, 1, Len(s) - 1) ELSE s

\* new CleanFlux(apiKey, {baseUrl}): what it throws, or the client it yields.
\* apiKey is any value; baseUrl is a string or undefined.
Constructor(apiKey, baseUrl) ==
    IF Falsy(apiKey.p)
    THEN [thrown |-> Err("Error", MsgKeyRequired), client |-> NoClient]
    ELSE IF TypeOf(apiKey) # "string"
    THEN [thrown |-> Err("Error", MsgKeyNotString), client |-> NoClient]
    ELSE [thrown |-> NoError,
          client |-> [constructed |-> TRUE,
                      apiKey |-> apiKey,
                      baseUrl |-> StripTrailingSlash(
                                      Tail(Or(baseUrl, Str(DefaultBaseUrl))))]]

(***************************************************************************)
(* JSON text: a sequence of tokens, each a punctuation or literal mark, or *)
(* a string or number primitive. JSON.stringify and response.json()        *)
(***************************************************************************)
Punct(x) == <<x>>

PrimTok(p) ==
    CASE p[1] \in {"string", "number"} -> p
      [] p[1] = "boolean" -> Punct(p[2])
      [] OTHER -> Punct("null")

IsPrimTok(tok) == tok[1] \in {"string", "number", "true", "false", "null"}

TokPrim(tok) ==
    CASE tok[1] \in {"string", "number"} -> tok
      [] tok[1] = "true" -> Bool(TRUE)
      [] tok[1] = "false" -> Bool(FALSE)
      [] OTHER -> Null

RECURSIVE MemberToks(_)
MemberToks(ms) ==
    IF ms = <<>> THEN <<>>
    ELSE <<Str(<<Head(ms)[1]>>), Punct(":"), PrimTok(Tail(Head(ms)))>>
         \o (IF Len(ms) > 1 THEN <<Punct(",")>> ELSE <<>>)
         \o MemberToks(Tail(ms))

\* JSON.stringify(v): undefined for undefined (the request then has no body).
Stringify(v) ==
    IF TypeOf(v) = "undefined" THEN [present |-> FALSE, text |-> <<>>]
    ELSE IF TypeOf(v) = "object"
    THEN [present |-> TRUE,
          text |-> <<Punct("{")>> \o MemberToks(v.m) \o <<Punct("}")>>]
    ELSE [present |-> TRUE, text |-> <<PrimTok(v.p)>>]

ParseFail == [ok |-> FALSE, v |-> Val(Undefined)]

\* The members of an object from token i on, f being the fields read so far.
RECURSIVE ParseMembers(_, _, _)
ParseMembers(text, i, f) ==
    IF /\ i + 3 <= Len(text)
       /\ text[i][1] = "string" /\ Len(text[i]) = 2 /\ text[i][2] \in Keys
       /\ text[i + 1] = Punct(":")
       /\ IsPrimTok(text[i + 2])
    THEN LET g == [f EXCEPT ![text[i][2]] = TokPrim(text[i + 2])]
         IN  IF text[i + 3] = Punct("}")
             THEN IF i + 3 = Len(text) THEN [ok |-> TRUE, v |-> Obj(g)]
                  ELSE ParseFail
             ELSE IF text[i + 3] = Punct(",")
             THEN ParseMembers(text, i + 4, g)
             ELSE ParseFail
    ELSE ParseFail

\* JSON.parse of a body text: the value, or not ok (a SyntaxError).
Parse(text) ==
    IF Len(text) = 0 THEN ParseFail
    ELSE IF Len(text) = 1 /\ IsPrimTok(text[1])
    THEN [ok |-> TRUE, v |-> Val(TokPrim(text[1]))]
    ELSE IF text[1] = Punct("{")
    THEN IF Len(text) = 2 /\ text[2] = Punct("}")
         THEN [ok |-> TRUE, v |-> Obj(NoFields)]
         ELSE ParseMembers(text, 2, NoFields)
    ELSE ParseFail

(***************************************************************************)
(* Requests                                                                *)
(***************************************************************************)
Capabilities == {"clean", "normalize", "extractUrls", "removeProfanity", "metadata"}

\* The endpoint name each capability method passes to _request.
EndpointCamel(method) == method
Endpoint(method) ==
    CASE method = "clean" -> "clean"
      [] method = "normalize" -> "normalize"
      [] method = "extractUrls" -> "extract-urls"
      [] method = "removeProfanity" -> "remove-profanity"
      [] method = "metadata" -> "metadata"

\* `${this.baseUrl}/api/${endpoint}`
Url(baseUrl, endpoint) == baseUrl \o <<"/", "api", "/", endpoint>>

UserAgent == Val(Str(<<"cleanflux-js", "/", "1.0.0">>))
NoBody == [present |-> FALSE, text |-> <<>>]

\* The headers of _request; a header that is not sent holds undefined.
RequestHeaders(cl) ==
    [xApiKey |-> cl.apiKey,
     contentType |-> Val(Str(<<"application", "/", "json">>)),
     userAgent |-> UserAgent]

\* The headers of ping.
PingHeadersWithKey(cl) ==
    [xApiKey |-> cl.apiKey, contentType |-> Val(Undefined), userAgent |-> UserAgent]
PingHeaders(cl) ==
    [xApiKey |-> Val(Undefined), contentType |-> Val(Undefined),
     userAgent |-> UserAgent]

\* The fetch of _request, issued by call c.
PostRequest(c, cl, endpoint, payload) ==
    [call |-> c, method |-> "POST", url |-> Url(cl.baseUrl, endpoint),
     headers |-> RequestHeaders(cl), body |-> Stringify(payload)]

\* The fetch of ping.
GetRequest(c, cl) ==
    [call |-> c, method |-> "GET", url |-> Url(cl.baseUrl, "ping"),
     headers |-> PingHeaders(cl), body |-> NoBody]

\* One fetch per invocation: the requests on the wire after req is issued.
SentTwice(log, req) == Append(Append(log, req), req)
Sent(log, req) == Append(log, req)

(***************************************************************************)
(* Responses                                                               *)
(***************************************************************************)
FetchError == Err("TypeError", <<"fetch failed">>)
BodyError == Err("TypeError", <<"terminated">>)
SyntaxError == Err("SyntaxError", <<"Unexpected token in JSON">>)

Fulfilled(v) == [state |-> "fulfilled", value |-> v, error |-> NoError]
Failed(e) == [state |-> "rejected", value |-> Val(Undefined), error |-> e]

\* The promise of response.json(), for the transport's record n of the
\* response: the body stream failed, or its text parses or does not.
JsonPromise(n) ==
    IF n.body = "failed" THEN Failed(BodyError)
    ELSE LET p == Parse(n.text)
         IN  IF p.ok THEN Fulfilled(p.v) ELSE Failed(SyntaxError)

\* promise.catch(() => null)
CatchNull(p) == IF p.state = "rejected" THEN Fulfilled(Val(Null)) ELSE p

\* response.ok
OkOnly200(status) == status = 200
Ok(status) == status >= 200 /\ status <= 299

\* data?.error || data?.message || `Request failed with status ${status}`
MessageFirst(data, status) ==
    Or(Or(Get(data, "message"), Get(data, "error")),
       Str(<<"Request failed with status ">> \o NatPieces(status)))
ErrorDetail(data, status) ==
    Or(Or(Get(data, "error"), Get(data, "message")),
       Str(<<"Request failed with status ">> \o NatPieces(status)))

\* The error _request throws on a response that is not ok.
ApiError(data, status) ==
    [name |-> "Error",
     message |-> <<"CleanFlux API Error: ">> \o ToStr(ErrorDetail(data, status)),
     status |-> Num(status), response |-> data]

Pending == [kind |-> "pending", value |-> Val(Undefined), error |-> NoError]
Resolved(v) == [kind |-> "resolved", value |-> v, error |-> NoError]
Rejected(e) == [kind |-> "rejected", value |-> Val(Undefined), error |-> e]

\* How _request settles once data is there.
RequestOutcome(status, data) ==
    IF ~Ok(status) THEN Rejected(ApiError(data, status)) ELSE Resolved(data)

\* How ping settles: as the promise of response.json() does.
PingClassified(status, p) == RequestOutcome(status, CatchNull(p).value)
PingOutcome(status, p) ==
    IF p.state = "fulfilled" THEN Resolved(p.value) ELSE Rejected(p.error)

(***************************************************************************)
(* State                                                                   *)
(***************************************************************************)
VARIABLES
    args,       \* the arguments the constructor was called with
    client,     \* this.apiKey and this.baseUrl
    thrown,     \* what the constructor threw
    calls,      \* per call: its position, arguments, locals and outcome
    net,        \* per call: what the transport did with its request
    requests    \* the requests issued, in order

vars == <<args, client, thrown, calls, net, requests>>

NoArgs == [given |-> FALSE, apiKey |-> Val(Undefined), baseUrl |-> Undefined]
IdleCall ==
    [pc |-> "idle", method |-> "none", payload |-> Val(Undefined), status |-> 0,
     result |-> Pending, settles |-> 0]
NoNet == [fetch |-> "none", status |-> 0, body |-> "none", text |-> <<>>]

Init ==
    /\ args = NoArgs
    /\ client = NoClient
    /\ thrown = NoError
    /\ calls = [c \in Calls |-> IdleCall]
    /\ net = [c \in Calls |-> NoNet]
    /\ requests = <<>>

(***************************************************************************)
(* The caller                                                              *)
(***************************************************************************)
\* new CleanFlux(apiKey, {baseUrl})
New(apiKey, baseUrl) ==
    /\ ~args.given
    /\ args' = [given |-> TRUE, apiKey |-> apiKey, baseUrl |-> baseUrl]
    /\ client' = Constructor(apiKey, baseUrl).client
    /\ thrown' = Constructor(apiKey, baseUrl).thrown
    /\ UNCHANGED <<calls, net, requests>>

\* Call c can be made: the client exists, and calls are numbered as made.
CanCall(c) ==
    /\ client.constructed
    /\ calls[c].pc = "idle"
    /\ c > 1 => calls[c - 1].pc # "idle"

\* The part of a method that runs before its first await: the fetch is issued.
Issue(c, method, payload, req) ==
    /\ CanCall(c)
    /\ calls' = [calls EXCEPT ![c] = [@ EXCEPT !.pc = "fetching",
                                                !.method = method,
                                                !.payload = payload]]
    /\ net' = [net EXCEPT ![c] = [@ EXCEPT !.fetch = "pending"]]
    /\ requests' = Sent(requests, req)
    /\ UNCHANGED <<args, client, thrown>>

\* _request(endpoint, payload), up to its await of fetch.
Request(c, method, payload) ==
    Issue(c, method, payload, PostRequest(c, client, Endpoint(method), payload))

Clean(c, payload) == Request(c, "clean", payload)
Normalize(c, payload) == Request(c, "normalize", payload)
ExtractUrls(c, payload) == Request(c, "extractUrls", payload)
RemoveProfanity(c, payload) == Request(c, "removeProfanity", payload)
Metadata(c, payload) == Request(c, "metadata", payload)

\* ping(), up to its await of fetch.
Ping(c) == Issue(c, "ping", Val(Undefined), GetRequest(c, client))

(***************************************************************************)
(* The transport                                                           *)
(***************************************************************************)
\* fetch resolves: the status line and headers of the response are in.
ResponseArrives(c, status) ==
    /\ net[c].fetch = "pending"
    /\ net' = [net EXCEPT ![c] = [@ EXCEPT !.fetch = "fulfilled", !.status = status]]
    /\ UNCHANGED <<args, client, thrown, calls, requests>>

\* fetch rejects: the request could not be sent or answered.
FetchFails(c) ==
    /\ net[c].fetch = "pending"
    /\ net' = [net EXCEPT ![c] = [@ EXCEPT !.fetch = "rejected"]]
    /\ UNCHANGED <<args, client, thrown, calls, requests>>

\* The body that response.json() reads is in.
BodyArrives(c, text) ==
    /\ net[c].body = "pending"
    /\ net' = [net EXCEPT ![c] = [@ EXCEPT !.body = "text", !.text = text]]
    /\ UNCHANGED <<args, client, thrown, calls, requests>>

\* The body stream that response.json() reads fails.
BodyFails(c) ==
    /\ net[c].body = "pending"
    /\ net' = [net EXCEPT ![c] = [@ EXCEPT !.body = "failed"]]
    /\ UNCHANGED <<args, client, thrown, calls, requests>>

(***************************************************************************)
(* The continuations of a call                                             *)
(***************************************************************************)
\* The locals and arguments that the continuation of call c reads.
FrameOfFirst(c) == calls[1]
Frame(c) == calls[c]

Settle(c, outcome) ==
    calls' = [calls EXCEPT ![c] = [@ EXCEPT !.pc = "settled",
                                             !.result = outcome,
                                             !.settles = @ + 1]]

\* After `await fetch(...)`: a rejection leaves the method; otherwise response
\* is bound and response.json() is called.
AfterFetch(c) ==
    /\ calls[c].pc = "fetching"
    /\ net[c].fetch \in {"fulfilled", "rejected"}
    /\ IF net[c].fetch = "rejected"
       THEN /\ Settle(c, Rejected(FetchError))
            /\ UNCHANGED net
       ELSE /\ calls' = [calls EXCEPT ![c] = [@ EXCEPT !.pc = "reading",
                                                        !.status = net[c].status]]
            /\ net' = [net EXCEPT ![c] = [@ EXCEPT !.body = "pending"]]
    /\ UNCHANGED <<args, client, thrown, requests>>

\* After response.json() settled: _request classifies, ping returns.
AfterJson(c) ==
    /\ calls[c].pc = "reading"
    /\ net[c].body \in {"text", "failed"}
    /\ IF Frame(c).method = "ping"
       THEN Settle(c, PingOutcome(Frame(c).status, JsonPromise(net[c])))
       ELSE Settle(c, RequestOutcome(Frame(c).status,
                                     CatchNull(JsonPromise(net[c])).value))
    /\ UNCHANGED <<args, client, thrown, net, requests>>

(***************************************************************************)
(* Inputs                                                                  *)
(***************************************************************************)
SeqsUpTo(S, n) == UNION {[1..k -> S] : k \in 0..n}

KeyA == Val(Str(<<"sk_live_test">>))
KeyB == Val(Str(<<"sk_live_other">>))

\* What a caller may pass as apiKey.
KeyInputs ==
    {Val(Undefined), Val(Null), Val(Str(<<>>)), KeyA, KeyB, Val(Num(0)),
     Val(Num(7)), Val(Bool(FALSE)), Val(Bool(TRUE)), Obj(NoFields)}

\* What a caller may pass as options.baseUrl: nothing, or a string.
BaseUrlInputs ==
    {Undefined, Str(<<"https:", "/", "/", "x.test">>),
     Str(<<"https:", "/", "/", "x.test", "/">>)}
    \cup {Str(s) : s \in SeqsUpTo({"x", "/"}, MaxLen)}

Payloads ==
    {Val(Undefined),
     Obj(Field("text", Str(<<"hi">>))),
     Obj([Field("text", Str(<<"  Hello   World  ">>)) EXCEPT !["cleaned"] = Bool(TRUE)])}

JsonHi == Obj(Field("cleaned", Str(<<"hi">>)))
JsonBadText == Obj(Field("error", Str(<<"bad text">>)))

ErrorValues ==
    {Undefined, Null, Str(<<>>), Str(<<"bad text">>), Num(0), Num(7),
     Bool(FALSE), Bool(TRUE)}
MessageValues == {Undefined, Str(<<>>), Str(<<"oops">>)}
CleanedValues == {Undefined, Str(<<"hi">>)}

JsonBodies ==
    {Obj([text |-> Undefined, cleaned |-> c, error |-> e, message |-> m]) :
        c \in CleanedValues, e \in ErrorValues, m \in MessageValues}
    \cup {Val(Null), Val(Str(<<"ok">>)), Val(Num(0)), Val(Bool(FALSE))}

\* Body texts that are not JSON: empty, markup, cut short, trailing text.
BadTexts ==
    {<<>>,
     <<Punct("<html>")>>,
     <<Punct("{")>>,
     <<Punct("{"), Str(<<"error">>), Punct(":"), Str(<<"cut">>)>>,
     <<Punct("{"), Punct("}"), Punct("}")>>}

BodyTexts == {Stringify(v).text : v \in JsonBodies} \cup BadTexts
Statuses == {200, 201, 204, 299, 300, 400, 404, 500, 503}

FewTexts == {Stringify(JsonHi).text, <<Punct("<html>")>>}
FewStatuses == {200, 404}

(***************************************************************************)
(* Specifications                                                          *)
(***************************************************************************)
Construct(ks, bs) == \E k \in ks, b \in bs : New(k, b)

Caller(cs, ps) ==
    \E c \in cs, p \in ps :
        \/ Clean(c, p)
        \/ Normalize(c, p)
        \/ ExtractUrls(c, p)
        \/ RemoveProfanity(c, p)
        \/ Metadata(c, p)
        \/ Ping(c)

Transport(cs, ss, ts) ==
    \E c \in cs :
        \/ \E st \in ss : ResponseArrives(c, st)
        \/ FetchFails(c)
        \/ \E tx \in ts : BodyArrives(c, tx)
        \/ BodyFails(c)

Continue(cs) == \E c \in cs : AfterFetch(c) \/ AfterJson(c)

\* One client, constructed from any arguments, and one call on it.
Next ==
    \/ Construct(KeyInputs, BaseUrlInputs)
    \/ Caller({1}, Payloads)
    \/ Transport({1}, FewStatuses, FewTexts)
    \/ Continue({1})

Spec == Init /\ [][Next]_vars

\* One call, answered with every status and body text.
NextDispatch ==
    \/ Construct({Val(Undefined), KeyA}, {Undefined})
    \/ Caller({1}, {Val(Undefined), Obj(Field("text", Str(<<"hi">>)))})
    \/ Transport({1}, Statuses, BodyTexts)
    \/ Continue({1})

DispatchSpec == Init /\ [][NextDispatch]_vars

\* Calls fired concurrently on one client: a method whose endpoint is its
\* name, one whose endpoint is not, and ping.
CallerOfThree(cs, ps) ==
    \E c \in cs, p \in ps :
        \/ Clean(c, p)
        \/ RemoveProfanity(c, p)
        \/ Ping(c)

NextConc ==
    \/ Construct({Val(Undefined), KeyA}, {Str(<<"x", "/">>)})
    \/ CallerOfThree(Calls, {Obj(Field("text", Str(<<"hi">>)))})
    \/ Transport(Calls, {200, 500}, {Stringify(JsonBadText).text})
    \/ Continue(Calls)

ConcSpec == Init /\ [][NextConc]_vars

\* Calls fired concurrently, each with every kind of outcome. The
\* continuation of a settled promise is a microtask, which the event loop
\* runs; the transport owes nothing, and may never answer.
CallerOfTwo(cs, ps) == \E c \in cs, p \in ps : Clean(c, p) \/ Ping(c)

NextFair ==
    \/ Construct({Val(Undefined), KeyA}, {Undefined})
    \/ CallerOfTwo(Calls, {Obj(Field("text", Str(<<"hi">>)))})
    \/ Transport(Calls, {200, 500}, {Stringify(JsonBadText).text, <<Punct("<html>")>>})
    \/ Continue(Calls)

FairSpec == Init /\ [][NextFair]_vars /\ WF_vars(Continue(Calls))

(***************************************************************************)
(* Properties                                                              *)
(***************************************************************************)
IsCapabilityCall(c) == calls[c].method \in Capabilities
IsSettled(c) == calls[c].pc = "settled"
RequestsOf(c) == {i \in 1..Len(requests) : requests[i].call = c}
In2xx(status) == status \in 200..299
EndsWithSlash(s) == Len(s) > 0 /\ s[Len(s)] = "/"
WithoutLast(s) == SubSeq(s, 1, Len(s) - 1)
\* The pieces of the string p.
Given(p) == SubSeq(p, 2, Len(p))

\* The body as _request sees it: the parsed JSON, or null.
ParsedOrNull(n) ==
    IF n.body = "text" /\ Parse(n.text).ok THEN Parse(n.text).v ELSE Val(Null)

\* The body has a field k: it is there and not null.
HasField(v, k) == Get(v, k) \notin {Undefined, Null}
Fallback(status) == Str(<<"Request failed with status ">> \o NatPieces(status))
ApiErrorWith(detail, n) ==
    [name |-> "Error", message |-> <<"CleanFlux API Error: ">> \o ToStr(detail),
     status |-> Num(n.status), response |-> ParsedOrNull(n)]

\* C1: no key fails with "API key is required", every key that is not a
\* string (0 and false too) fails with "API key must be a string", an empty
\* string key fails, and a non-empty string key yields a client holding it.
C1_ConstructionValidation ==
    args.given =>
        /\ TypeOf(args.apiKey) \in {"undefined", "null"}
              => thrown = Err("Error", MsgKeyRequired) /\ ~client.constructed
        /\ TypeOf(args.apiKey) \notin {"undefined", "null", "string"}
              => thrown = Err("Error", MsgKeyNotString) /\ ~client.constructed
        /\ args.apiKey = Val(Str(<<>>))
              => thrown.name = "Error" /\ ~client.constructed
        /\ TypeOf(args.apiKey) = "string" /\ args.apiKey # Val(Str(<<>>))
              => thrown = NoError /\ client.constructed
                 /\ client.apiKey = args.apiKey

\* C2 as claimed: a capability call whose status is outside 200-299 rejects
\* with an error carrying the status and the parsed body (or null), whose
\* message is the body's error field if the body has one, else its message
\* field if it has one, else "Request failed with status {code}".
C2_MessageByPresence ==
    \A c \in Calls :
        IsSettled(c) /\ IsCapabilityCall(c) /\ net[c].fetch = "fulfilled"
        /\ ~In2xx(net[c].status)
        => LET data == ParsedOrNull(net[c])
               detail == IF HasField(data, "error") THEN Get(data, "error")
                         ELSE IF HasField(data, "message") THEN Get(data, "message")
                         ELSE Fallback(net[c].status)
           IN  calls[c].result = Rejected(ApiErrorWith(detail, net[c]))

\* C2 as amended: the message is the body's error field if it is truthy,
\* else its message field if that is truthy, else the fallback; the error
\* carries the status and the parsed body, null when the body was not read
\* as JSON.
C2_MessageByTruthiness ==
    \A c \in Calls :
        IsSettled(c) /\ IsCapabilityCall(c) /\ net[c].fetch = "fulfilled"
        /\ ~In2xx(net[c].status)
        => LET data == ParsedOrNull(net[c])
               e == Get(data, "error")
               m == Get(data, "message")
               detail == IF ~Falsy(e) THEN e
                         ELSE IF ~Falsy(m) THEN m
                         ELSE Fallback(net[c].status)
           IN  calls[c].result = Rejected(ApiErrorWith(detail, net[c]))

\* A call rejected on a body whose error field is there but empty, with a
\* message field beside it.
C2_Witness ==
    \E c \in Calls :
        /\ IsSettled(c) /\ IsCapabilityCall(c) /\ net[c].status = 500
        /\ Get(ParsedOrNull(net[c]), "error") = Str(<<>>)
        /\ Get(ParsedOrNull(net[c]), "message") = Str(<<"oops">>)
        /\ calls[c].result.kind = "rejected"
        /\ calls[c].result.error.message = <<"CleanFlux API Error: ", "oops">>

\* C3: a capability call whose status is in 200-299 resolves, and to the
\* parsed JSON body exactly.
C3_SuccessPassthrough ==
    \A c \in Calls :
        IsSettled(c) /\ IsCapabilityCall(c) /\ net[c].fetch = "fulfilled"
        /\ In2xx(net[c].status)
        => /\ calls[c].result.kind = "resolved"
           /\ calls[c].result.error = NoError
           /\ calls[c].result.value = ParsedOrNull(net[c])

\* clean resolved to {"cleaned": "hi"} on a 299 status.
C3_Witness ==
    \E c \in Calls :
        /\ IsSettled(c) /\ calls[c].method = "clean" /\ net[c].status = 299
        /\ net[c].text = Stringify(JsonHi).text
        /\ calls[c].result = Resolved(JsonHi)

C4_Endpoint(method) ==
    CASE method = "clean" -> "clean"
      [] method = "normalize" -> "normalize"
      [] method = "extractUrls" -> "extract-urls"
      [] method = "removeProfanity" -> "remove-profanity"
      [] method = "metadata" -> "metadata"

\* C4: the request of each capability method is a POST to
\* {baseUrl}/api/{its own endpoint} with the configured key in x-api-key and
\* the caller's payload as the body.
C4_Routing ==
    \A i \in 1..Len(requests) :
        LET r == requests[i]
            call == calls[r.call]
        IN  call.method \in Capabilities
            => /\ r.method = "POST"
               /\ r.url = client.baseUrl \o <<"/", "api", "/", C4_Endpoint(call.method)>>
               /\ r.headers.xApiKey = args.apiKey
               /\ TypeOf(args.apiKey) = "string"
               /\ IF call.payload = Val(Undefined) THEN ~r.body.present
                  ELSE /\ r.body.present
                       /\ Parse(r.body.text) = [ok |-> TRUE, v |-> call.payload]

\* removeProfanity sent a payload of two fields with the second key.
C4_Witness ==
    \E i \in 1..Len(requests) :
        /\ calls[requests[i].call].method = "removeProfanity"
        /\ Get(calls[requests[i].call].payload, "cleaned") = Bool(TRUE)
        /\ requests[i].headers.xApiKey = KeyB
        /\ requests[i].url[Len(requests[i].url)] = "remove-profanity"

DoubleSlashAtJoin(url, base) ==
    Len(base) > 0 /\ url[Len(base)] = "/" /\ url[Len(base) + 1] = "/"

\* C5 as claimed: a trailing slash of the given baseUrl is stripped once, a
\* baseUrl without one is stored unchanged, and no request's URL has a double
\* slash where the stored base meets "/api/".
C5_NeverDoubleSlash ==
    client.constructed /\ args.baseUrl[1] = "string" /\ Given(args.baseUrl) # <<>>
    => /\ client.baseUrl = IF EndsWithSlash(Given(args.baseUrl))
                           THEN WithoutLast(Given(args.baseUrl))
                           ELSE Given(args.baseUrl)
       /\ \A i \in 1..Len(requests) :
              ~DoubleSlashAtJoin(requests[i].url, client.baseUrl)

\* C5 as amended: the double slash is excluded only for a baseUrl that does
\* not end in two slashes; an empty or absent baseUrl gives the default.
C5_StrippedOnce ==
    client.constructed
    => IF args.baseUrl[1] = "string" /\ Given(args.baseUrl) # <<>>
       THEN /\ client.baseUrl = IF EndsWithSlash(Given(args.baseUrl))
                                THEN WithoutLast(Given(args.baseUrl))
                                ELSE Given(args.baseUrl)
            /\ ~(EndsWithSlash(Given(args.baseUrl))
                 /\ EndsWithSlash(WithoutLast(Given(args.baseUrl))))
               => \A i \in 1..Len(requests) :
                      /\ ~DoubleSlashAtJoin(requests[i].url, client.baseUrl)
                      /\ SubSeq(requests[i].url, 1, Len(client.baseUrl))
                             = client.baseUrl
       ELSE client.baseUrl = <<"https:", "/", "/", "api.cleanflux.ai">>

\* A request of a client given "https://x.test/".
C5_Witness ==
    /\ args.baseUrl = Str(<<"https:", "/", "/", "x.test", "/">>)
    /\ client.baseUrl = <<"https:", "/", "/", "x.test">>
    /\ Len(requests) = 1
    /\ requests[1].url = <<"https:", "/", "/", "x.test", "/", "api", "/", "normalize">>

\* C6: an unparsable body is a null body, and a transport failure, while
\* sending or while receiving the body, rejects the call with the
\* transport's own error.
C6_TransportFailurePropagates ==
    \A c \in Calls :
        IsSettled(c) /\ IsCapabilityCall(c)
        => /\ net[c].fetch = "rejected" => calls[c].result = Rejected(FetchError)
           /\ net[c].body = "failed" => calls[c].result = Rejected(BodyError)
           /\ net[c].body = "text" /\ ~Parse(net[c].text).ok
                 => \/ calls[c].result = Resolved(Val(Null))
                    \/ /\ calls[c].result.kind = "rejected"
                       /\ calls[c].result.error.status # Undefined
                       /\ calls[c].result.error.response = Val(Null)

\* C7: the request of ping is a GET to {baseUrl}/api/ping with the
\* client-identifier header alone: no API key, no body.
C7_PingRequest ==
    \A i \in 1..Len(requests) :
        LET r == requests[i]
        IN  calls[r.call].method = "ping"
            => /\ r.method = "GET"
               /\ r.url = client.baseUrl \o <<"/", "api", "/", "ping">>
               /\ r.headers.xApiKey = Val(Undefined)
               /\ r.headers.contentType = Val(Undefined)
               /\ r.headers.userAgent = Val(Str(<<"cleanflux-js", "/", "1.0.0">>))
               /\ r.body = [present |-> FALSE, text |-> <<>>]

\* ping was sent by a client that holds a key.
C7_Witness ==
    /\ client.constructed /\ client.apiKey = KeyA
    /\ Len(requests) = 1
    /\ calls[requests[1].call].method = "ping"
    /\ requests[1].method = "GET"

\* C8: ping resolves to the parsed body whatever the status, never rejects
\* with an error of _request, and rejects with the parse error when the body
\* is not JSON.
C8_PingUnclassified ==
    \A c \in Calls :
        IsSettled(c) /\ calls[c].method = "ping" /\ net[c].body = "text"
        => /\ calls[c].result.error.status = Undefined
           /\ IF Parse(net[c].text).ok
              THEN calls[c].result = Resolved(Parse(net[c].text).v)
              ELSE /\ calls[c].result.kind = "rejected"
                   /\ calls[c].result.error.name = "SyntaxError"

\* ping resolved to the body of a 503.
C8_Witness ==
    \E c \in Calls :
        /\ IsSettled(c) /\ calls[c].method = "ping" /\ net[c].status = 503
        /\ calls[c].result = Resolved(JsonBadText)

Arrived(c) == net[c].fetch = "rejected" \/ net[c].body \in {"text", "failed"}

\* C9: a call issues one request, never a second whatever its outcome, and
\* construction none; a call settles at most once; and eventually, and from
\* then on, every call whose fetch failed or whose body is in or failed has
\* settled (what has arrived stays arrived).
C9_SingleAttempt ==
    /\ [](\A c \in Calls :
            /\ Cardinality(RequestsOf(c)) = IF calls[c].pc = "idle" THEN 0 ELSE 1
            /\ calls[c].settles = IF IsSettled(c) THEN 1 ELSE 0)
    /\ [][/\ args' # args => requests' = requests
          /\ \A c \in Calls : /\ Arrived(c) => Arrived(c)'
                              /\ IsSettled(c) => calls[c]' = calls[c]]_vars
    /\ <>[](\A c \in Calls : Arrived(c) => IsSettled(c))

\* Every call settled, one by a failed fetch, with one request each.
C9_Witness ==
    /\ \A c \in Calls : IsSettled(c) /\ calls[c].settles = 1
    /\ net[1].fetch = "rejected"
    /\ Len(requests) = MaxCalls

\* How a call of this method settles when it is the only one.
AloneOutcome(method, n) ==
    IF n.fetch = "rejected" THEN Rejected(FetchError)
    ELSE IF method = "ping" THEN PingOutcome(n.status, JsonPromise(n))
    ELSE RequestOutcome(n.status, CatchNull(JsonPromise(n)).value)

\* C10: under every interleaving each call sends its own payload to its own
\* endpoint and settles as it would alone on its own response, and the
\* client's apiKey and baseUrl stay as constructed.
C10_Independent ==
    /\ client = Constructor(args.apiKey, args.baseUrl).client
    /\ \A c \in Calls :
           /\ IsSettled(c) => calls[c].result = AloneOutcome(calls[c].method, net[c])
           /\ \A i \in RequestsOf(c) :
                  /\ requests[i].body = IF calls[c].method = "ping" THEN NoBody
                                        ELSE Stringify(calls[c].payload)
                  /\ requests[i].url[Len(requests[i].url)]
                         = IF calls[c].method = "ping" THEN "ping"
                           ELSE Endpoint(calls[c].method)

\* The second call settled, rejected on a 500, while the first, a ping on a
\* 200, still waits for its body.
C10_Witness ==
    /\ calls[1].pc = "reading" /\ calls[1].method = "ping" /\ net[1].status = 200
    /\ IsSettled(2) /\ calls[2].method = "clean" /\ net[2].status = 500
    /\ calls[2].result.kind = "rejected"
    /\ calls[2].result.error.message = <<"CleanFlux API Error: ", "bad text">>

====
